---------------------------- MODULE Spec2Model ----------------------------
(***************************************************************************)
(* The concurrent fetch-and-write pipeline of src/python/tcg-scraper/     *)
(* scraper.py: a producer that enqueues product ids on a bounded queue,   *)
(* a pool of workers that fetch each id under a semaphore, and one writer *)
(* task that drains the results queue into three append-only files.       *)
(*                                                                         *)
(* The program runs on one asyncio event loop: a task runs without        *)
(* interruption from one await to the next, so every action below is the  *)
(* code between two suspension points of one task.                        *)
(***************************************************************************)
EXTENDS Integers, Sequences, FiniteSets, TLC

(***************************************************************************)
(* Bounds of the model.  The program's own values are workers = 50,       *)
(* Semaphore(50) and Queue(maxsize=100000) (scraper.py:367, 374, 373);    *)
(* they are scaled down here so that the semaphore and the queue bound    *)
(* are actually reached.                                                   *)
(***************************************************************************)
NumWorkers == 2

SemaphoreSize == 1

QueueMaxsize == 1

MaxFaults == 1

Workers == 1..NumWorkers

(***************************************************************************)
(* The catalog the remote endpoint serves: for each product id the        *)
(* listings of results[0].results, each with its sellerKey and a seller   *)
(* field (sellerName) that tells two listings of one seller apart.        *)
(***************************************************************************)
Items == {101, 102, 103}

SellerKeys == {"A", "B"}

Listing(key, name) == [sellerKey |-> key, sellerName |-> name]

Catalog(product_id) ==
    CASE product_id = 101 -> << Listing("A", 1), Listing("B", 2) >>
      [] product_id = 102 -> << Listing("A", 3) >>
      [] OTHER            -> << Listing("B", 4), Listing("B", 5) >>

(***************************************************************************)
(* What the endpoint answers to a request.  "http" is a response whose    *)
(* status is not ok, "net" an exception raised by session.post, "json" a  *)
(* body that response.json() or the aggregate/listing extraction rejects, *)
(* "field" a body in which one listing lacks a seller field (sellerId,    *)
(* sellerName, ...), and "ok" a well-formed body.                          *)
(***************************************************************************)
FailureKinds == {"http", "net", "json", "field"}

\* A list of product ids is at most as long as the catalog: it can name
\* every item once, or repeat some.
MaxIds == Cardinality(Items)

(* product_ids is any non-empty list of at most MaxIds ids, duplicates     *)
(* included (extract_product_ids does not deduplicate, and scrape_category *)
(* returns before the pipeline when the list is empty).                    *)
RECURSIVE SeqsUpTo(_, _)
SeqsUpTo(S, n) ==
    IF n = 0 THEN { <<>> }
    ELSE LET shorter == SeqsUpTo(S, n - 1)
         IN  shorter \cup { Append(s, x) : s \in shorter, x \in S }

IdLists == SeqsUpTo(Items, MaxIds) \ { <<>> }

Range(s) == { s[k] : k \in 1..Len(s) }

VARIABLES
    product_ids,     \* the list handed to fetch_and_write_product_data
    faults,          \* how many more requests of this run the endpoint may fail
    error_log,       \* the logging.error records of fetch_product_data
    product_queue,   \* Queue(maxsize): the pending product ids
    pq_unfinished,   \* product_queue._unfinished_tasks
    data_queue,      \* asyncio.Queue(): the payloads for write_data
    dq_unfinished,   \* data_queue._unfinished_tasks
    permits,         \* semaphore._value
    wpc,             \* per worker: its position in worker / fetch_product_data
    witem,           \* per worker: product_id
    wbody,           \* per worker: the body of the response it is decoding
    wres,            \* per worker: what fetch_product_data returned
    seen_sellers,    \* the module-level set
    wrpc,            \* the writer's position in write_data
    wrpayload,       \* the tuple write_data took from data_queue
    product_file,    \* product_data.jsonl
    listing_file,    \* listings.jsonl
    seller_file,     \* sellers.jsonl
    mpc,             \* the position of fetch_and_write_product_data
    next_id,         \* index in product_ids of the next id _enqueue_products puts
    progress,        \* progress_bar.n
    xml_content,     \* the sitemap document handed to a parsing function
    sitemap_urls,    \* what parse_sitemap_index returned
    event,           \* hydra worker: the tcg_ids of the message that started it
    batch,           \* hydra worker: the list that batch and id_pool both name
    batch_size,      \* hydra worker: batch_size
    pricing_data,    \* hydra worker: pricing_data
    batch_iter,      \* hydra worker: the index of the iterator of `for tcg_id in batch`
    hpc,             \* hydra worker: the position of worker_function
    responses,       \* hydra worker: the requests it made, with their status codes
    failed_topic,    \* hydra: the messages published on the failed topic, not yet handled
    success_topic,   \* hydra: the messages published on the success topic, not yet handled
    dispatcher_topic, \* hydra: the messages published on the dispatcher topic
    table_rows       \* hydra receiver: the rows inserted in the BigQuery table

vars == << product_ids, faults, error_log, product_queue, pq_unfinished, data_queue,
           dq_unfinished, permits, wpc, witem, wbody, wres, seen_sellers, wrpc,
           wrpayload, product_file, listing_file, seller_file, mpc, next_id,
           progress, xml_content, sitemap_urls, event, batch, batch_size,
           pricing_data, batch_iter, hpc, responses, failed_topic, success_topic,
           dispatcher_topic, table_rows >>

\* The variables of fetch_and_write_product_data and its tasks, those of the
\* sitemap functions and those of the hydra functions.
pipeline_vars ==
    << product_ids, faults, error_log, product_queue, pq_unfinished, data_queue,
       dq_unfinished, permits, wpc, witem, wbody, wres, seen_sellers, wrpc,
       wrpayload, product_file, listing_file, seller_file, mpc, next_id,
       progress >>

sitemap_vars == << xml_content, sitemap_urls >>

hydra_vars ==
    << event, batch, batch_size, pricing_data, batch_iter, hpc, responses,
       failed_topic, success_topic, dispatcher_topic, table_rows >>

\* No sitemap document is being parsed, and no hydra function is running.
NoDocument == [well_formed |-> FALSE, entries |-> <<>>]

SitemapIdle == xml_content = NoDocument /\ sitemap_urls = <<>>

HydraIdle ==
    /\ event = <<>> /\ batch = <<>> /\ batch_size = 0 /\ pricing_data = <<>>
    /\ batch_iter = 0 /\ hpc = "idle" /\ responses = <<>>
    /\ failed_topic = <<>> /\ success_topic = <<>> /\ dispatcher_topic = <<>>
    /\ table_rows = <<>>

(***************************************************************************)
(* Values.  None is a value of type NoneType; product_data is a dict.     *)
(***************************************************************************)
NoneValue == [type |-> "NoneType", product_id |-> 0, totalResults |-> 0]

ProductData(product_id) ==
    [type |-> "dict", product_id |-> product_id,
     totalResults |-> Len(Catalog(product_id))]

ListingData(product_id) ==
    [k \in 1..Len(Catalog(product_id)) |->
        [product_id |-> product_id,
         seller_key |-> Catalog(product_id)[k].sellerKey,
         tcg_id     |-> k]]

SellerRecord(listing) ==
    [seller_key |-> listing.sellerKey, seller_name |-> listing.sellerName]

\* The triple fetch_product_data returns.  is_none tells None, None, None
\* from a triple of records; raised tells that the call raised instead.
Triple(pd, ld, sd) ==
    [is_none |-> FALSE, raised |-> FALSE,
     product_data |-> pd, listing_data |-> ld, seller_data |-> sd]

NoneTriple ==
    [is_none |-> TRUE, raised |-> FALSE,
     product_data |-> NoneValue, listing_data |-> <<>>, seller_data |-> <<>>]

IsInstanceInt(value) == value.type = "int"

\* The truth value of a dict-or-None and of a list-or-None.
Truthy(value) == value.type = "dict"

\* A response body: whether response.json() and the aggregate and listing
\* extraction accept it, and which listing (0: none) lacks a seller field.
Body(decodes, bad) == [decodes |-> decodes, bad |-> bad]

NoBody == Body(FALSE, 0)

(***************************************************************************)
(* The state after fetch_and_write_product_data has created the queues,   *)
(* the semaphore, the worker tasks and the writer task (lines 372-386):   *)
(* every task is at its first await, nothing is enqueued yet.             *)
(***************************************************************************)
Init ==
    /\ product_ids \in IdLists
    /\ faults = MaxFaults
    /\ error_log = <<>>
    /\ product_queue = <<>>
    /\ pq_unfinished = 0
    /\ data_queue = <<>>
    /\ dq_unfinished = 0
    /\ permits = SemaphoreSize
    /\ wpc = [w \in Workers |-> "get"]
    /\ witem = [w \in Workers |-> 0]
    /\ wbody = [w \in Workers |-> NoBody]
    /\ wres = [w \in Workers |-> NoneTriple]
    /\ seen_sellers = {}
    /\ wrpc = "get"
    /\ wrpayload = NoneTriple
    /\ product_file = <<>>
    /\ listing_file = <<>>
    /\ seller_file = <<>>
    /\ mpc = "enqueue"
    /\ next_id = 1
    /\ progress = 0
    /\ SitemapIdle
    /\ HydraIdle

\* The same state but for the list and the endpoint: every task is at its
\* first await.
TasksAtFirstAwait ==
    /\ error_log = <<>>
    /\ product_queue = <<>>
    /\ pq_unfinished = 0
    /\ data_queue = <<>>
    /\ dq_unfinished = 0
    /\ permits = SemaphoreSize
    /\ wpc = [w \in Workers |-> "get"]
    /\ witem = [w \in Workers |-> 0]
    /\ wbody = [w \in Workers |-> NoBody]
    /\ wres = [w \in Workers |-> NoneTriple]
    /\ seen_sellers = {}
    /\ wrpc = "get"
    /\ wrpayload = NoneTriple
    /\ product_file = <<>>
    /\ listing_file = <<>>
    /\ seller_file = <<>>
    /\ mpc = "enqueue"
    /\ next_id = 1
    /\ progress = 0
    /\ SitemapIdle
    /\ HydraIdle

(***************************************************************************)
(* asyncio.Queue and asyncio.Semaphore.  Each operator is preceded by a    *)
(* faulty variant of it, which the properties below must tell apart.       *)
(***************************************************************************)
\* Queue.full(): put suspends the caller while it holds.
QueueFullNever(queue) == FALSE

QueueFull(queue) == Len(queue) >= QueueMaxsize

\* Semaphore.locked(): acquire suspends the caller while it holds.
SemaphoreLockedNever(value) == FALSE

SemaphoreLocked(value) == value = 0

\* Queue.join() returns once every put has been matched by a task_done.
JoinDoneWhenEmpty(queue, unfinished) == queue = <<>>

JoinDone(queue, unfinished) == unfinished = 0

(***************************************************************************)
(* _enqueue_products and the two joins of fetch_and_write_product_data.   *)
(***************************************************************************)
Enqueue ==
    /\ mpc = "enqueue"
    /\ ~QueueFull(product_queue)
    /\ product_queue' = Append(product_queue, product_ids[next_id])
    /\ pq_unfinished' = pq_unfinished + 1
    /\ next_id' = next_id + 1
    /\ mpc' = IF next_id = Len(product_ids) THEN "join_product" ELSE "enqueue"
    /\ UNCHANGED << product_ids, faults, error_log, data_queue, dq_unfinished,
                    permits, wpc, witem, wbody, wres, seen_sellers, wrpc,
                    wrpayload, product_file, listing_file, seller_file, progress >>
    /\ UNCHANGED << sitemap_vars, hydra_vars >>

JoinProductQueue ==
    /\ mpc = "join_product"
    /\ JoinDone(product_queue, pq_unfinished)
    /\ mpc' = "join_data"
    /\ UNCHANGED << product_ids, faults, error_log, product_queue, pq_unfinished,
                    data_queue, dq_unfinished, permits, wpc, witem, wbody, wres,
                    seen_sellers, wrpc, wrpayload, product_file, listing_file,
                    seller_file, next_id, progress >>
    /\ UNCHANGED << sitemap_vars, hydra_vars >>

JoinDataQueue ==
    /\ mpc = "join_data"
    /\ JoinDone(data_queue, dq_unfinished)
    /\ mpc' = "returned"
    /\ UNCHANGED << product_ids, faults, error_log, product_queue, pq_unfinished,
                    data_queue, dq_unfinished, permits, wpc, witem, wbody, wres,
                    seen_sellers, wrpc, wrpayload, product_file, listing_file,
                    seller_file, next_id, progress >>
    /\ UNCHANGED << sitemap_vars, hydra_vars >>

(***************************************************************************)
(* fetch_product_data, lines 311-324: the loop that builds seller_data.   *)
(* A listing whose sellerKey is new is added to seen_sellers first and    *)
(* its record is built next; building the record of listing `bad` raises  *)
(* KeyError, after the key was added.  A dict keeps insertion order, and  *)
(* a key is inserted at most once because it is in seen_sellers from then *)
(* on, so seller_data is the sequence of its values.                      *)
(***************************************************************************)
RECURSIVE SellerLoopNoCheck(_, _, _, _, _)
SellerLoopNoCheck(listings, k, seen, seller_data, bad) ==
    IF k > Len(listings)
    THEN [seen |-> seen, seller_data |-> seller_data, raised |-> FALSE]
    ELSE IF k = bad
         THEN [seen |-> seen \cup {listings[k].sellerKey},
               seller_data |-> seller_data, raised |-> TRUE]
         ELSE SellerLoopNoCheck(listings, k + 1, seen \cup {listings[k].sellerKey},
                                Append(seller_data, SellerRecord(listings[k])), bad)

RECURSIVE SellerLoopForgets(_, _, _, _, _)
SellerLoopForgets(listings, k, seen, seller_data, bad) ==
    IF k > Len(listings)
    THEN [seen |-> seen, seller_data |-> seller_data, raised |-> FALSE]
    ELSE IF listings[k].sellerKey \notin seen
         THEN IF k = bad
              THEN [seen |-> {listings[k].sellerKey},
                    seller_data |-> seller_data, raised |-> TRUE]
              ELSE SellerLoopForgets(listings, k + 1, {listings[k].sellerKey},
                                     Append(seller_data, SellerRecord(listings[k])), bad)
         ELSE SellerLoopForgets(listings, k + 1, seen, seller_data, bad)

\* A loop in which a later listing of a seller replaces the record that an
\* earlier listing of the same response has put in seller_data.
RECURSIVE SellerLoopLastWins(_, _, _, _, _)
SellerLoopLastWins(listings, k, seen, seller_data, bad) ==
    IF k > Len(listings)
    THEN [seen |-> seen, seller_data |-> seller_data, raised |-> FALSE]
    ELSE IF listings[k].sellerKey \notin seen
         THEN IF k = bad
              THEN [seen |-> seen \cup {listings[k].sellerKey},
                    seller_data |-> seller_data, raised |-> TRUE]
              ELSE SellerLoopLastWins(listings, k + 1,
                                      seen \cup {listings[k].sellerKey},
                                      Append(seller_data, SellerRecord(listings[k])),
                                      bad)
         ELSE SellerLoopLastWins(
                  listings, k + 1, seen,
                  [n \in 1..Len(seller_data) |->
                      IF seller_data[n].seller_key = listings[k].sellerKey
                      THEN SellerRecord(listings[k]) ELSE seller_data[n]],
                  bad)

RECURSIVE SellerLoop(_, _, _, _, _)
SellerLoop(listings, k, seen, seller_data, bad) ==
    IF k > Len(listings)
    THEN [seen |-> seen, seller_data |-> seller_data, raised |-> FALSE]
    ELSE IF listings[k].sellerKey \notin seen
         THEN IF k = bad
              THEN [seen |-> seen \cup {listings[k].sellerKey},
                    seller_data |-> seller_data, raised |-> TRUE]
              ELSE SellerLoop(listings, k + 1, seen \cup {listings[k].sellerKey},
                              Append(seller_data, SellerRecord(listings[k])), bad)
         ELSE SellerLoop(listings, k + 1, seen, seller_data, bad)

(***************************************************************************)
(* worker, line 343: product_id = await product_queue.get().              *)
(***************************************************************************)
\* A get that hands out the head of the queue without removing it.
WorkerGetPeeks(w) ==
    /\ wpc[w] = "get"
    /\ product_queue # <<>>
    /\ witem' = [witem EXCEPT ![w] = Head(product_queue)]
    /\ wpc' = [wpc EXCEPT ![w] = "acquire"]
    /\ UNCHANGED << product_ids, faults, error_log, product_queue, pq_unfinished,
                    data_queue, dq_unfinished, permits, wbody, wres, seen_sellers,
                    wrpc, wrpayload, product_file, listing_file, seller_file, mpc,
                    next_id, progress >>
    /\ UNCHANGED << sitemap_vars, hydra_vars >>

WorkerGet(w) ==
    /\ wpc[w] = "get"
    /\ product_queue # <<>>
    /\ witem' = [witem EXCEPT ![w] = Head(product_queue)]
    /\ product_queue' = Tail(product_queue)
    /\ wpc' = [wpc EXCEPT ![w] = "acquire"]
    /\ UNCHANGED << product_ids, faults, error_log, pq_unfinished, data_queue,
                    dq_unfinished, permits, wbody, wres, seen_sellers, wrpc,
                    wrpayload, product_file, listing_file, seller_file, mpc,
                    next_id, progress >>
    /\ UNCHANGED << sitemap_vars, hydra_vars >>

(***************************************************************************)
(* fetch_product_data, lines 265-269: the permit is taken and the request *)
(* is sent; the task then waits for the response.                         *)
(***************************************************************************)
FetchAcquire(w) ==
    /\ wpc[w] = "acquire"
    /\ ~SemaphoreLocked(permits)
    /\ permits' = permits - 1
    /\ wpc' = [wpc EXCEPT ![w] = "post"]
    /\ UNCHANGED << product_ids, faults, error_log, product_queue, pq_unfinished,
                    data_queue, dq_unfinished, witem, wbody, wres, seen_sellers,
                    wrpc, wrpayload, product_file, listing_file, seller_file,
                    mpc, next_id, progress >>
    /\ UNCHANGED << sitemap_vars, hydra_vars >>

\* What fetch_product_data hands to its caller after a failure of the given
\* kind: each except clause and the else branch return None, None, None.
FailureResultRaises(kind) ==
    IF kind = "net" THEN [NoneTriple EXCEPT !.raised = TRUE] ELSE NoneTriple

FailureResult(kind) == NoneTriple

\* The answers the endpoint can give to one more request.
Answers == {"ok"} \cup (IF faults > 0 THEN FailureKinds ELSE {})

(***************************************************************************)
(* fetch_product_data, lines 267-271 and 331-338: the response arrives.   *)
(* A status that is not ok and an exception of session.post are logged,   *)
(* the permit is released and None, None, None is returned.  With an ok   *)
(* status the task sleeps and awaits response.json().                     *)
(***************************************************************************)
FetchResponse(w) ==
    /\ wpc[w] = "post"
    /\ \E answer \in Answers :
         /\ faults' = IF answer = "ok" THEN faults ELSE faults - 1
         /\ IF answer \in {"http", "net"}
            THEN /\ error_log' = Append(error_log, << answer, witem[w] >>)
                 /\ permits' = permits + 1
                 /\ wres' = [wres EXCEPT ![w] = FailureResult(answer)]
                 /\ wpc' = [wpc EXCEPT ![w] = "handle"]
                 /\ UNCHANGED wbody
            ELSE /\ \E bad \in (IF answer = "field"
                                THEN 1..Len(Catalog(witem[w])) ELSE {0}) :
                       wbody' = [wbody EXCEPT ![w] = Body(answer # "json", bad)]
                 /\ wpc' = [wpc EXCEPT ![w] = "parse"]
                 /\ UNCHANGED << error_log, permits, wres >>
    /\ UNCHANGED << product_ids, product_queue, pq_unfinished, data_queue,
                    dq_unfinished, witem, seen_sellers, wrpc, wrpayload,
                    product_file, listing_file, seller_file, mpc, next_id,
                    progress >>
    /\ UNCHANGED << sitemap_vars, hydra_vars >>

(***************************************************************************)
(* fetch_product_data, lines 273-330: the body is decoded and the three   *)
(* record groups are built, in one piece (there is no await after         *)
(* response.json()).  An exception is logged and None, None, None is      *)
(* returned; the keys the seller loop added before it stay in             *)
(* seen_sellers.  Leaving `async with semaphore` releases the permit.     *)
(***************************************************************************)
FetchParse(w) ==
    /\ wpc[w] = "parse"
    /\ LET product_id == witem[w]
           loop == SellerLoop(Catalog(product_id), 1, seen_sellers, <<>>,
                              wbody[w].bad)
       IN  IF ~wbody[w].decodes
           THEN /\ error_log' = Append(error_log, << "parse", product_id >>)
                /\ wres' = [wres EXCEPT ![w] = FailureResult("json")]
                /\ UNCHANGED seen_sellers
           ELSE /\ seen_sellers' = loop.seen
                /\ IF loop.raised
                   THEN /\ error_log' = Append(error_log, << "parse", product_id >>)
                        /\ wres' = [wres EXCEPT ![w] = FailureResult("field")]
                   ELSE /\ wres' = [wres EXCEPT ![w] =
                                      Triple(ProductData(product_id),
                                             ListingData(product_id),
                                             loop.seller_data)]
                        /\ UNCHANGED error_log
    /\ permits' = permits + 1
    /\ wbody' = [wbody EXCEPT ![w] = NoBody]
    /\ wpc' = [wpc EXCEPT ![w] = "handle"]
    /\ UNCHANGED << product_ids, faults, product_queue, pq_unfinished, data_queue,
                    dq_unfinished, witem, wrpc, wrpayload, product_file,
                    listing_file, seller_file, mpc, next_id, progress >>
    /\ UNCHANGED << sitemap_vars, hydra_vars >>

(***************************************************************************)
(* worker, lines 345-360: what the worker does with the outcome.  It puts *)
(* the id back when the call raised or returned an int as product_data,   *)
(* and puts the triple on data_queue otherwise; the finally clause then   *)
(* acknowledges the item and advances the progress bar.                   *)
(***************************************************************************)
\* A worker that puts the id back whenever the fetch produced no record.
RequeuesOnNone(res) == res.is_none

Requeues(res) == res.raised \/ IsInstanceInt(res.product_data)

ProgressOnData(n, res) == IF res.is_none THEN n ELSE n + 1

ProgressUpdate(n, res) == n + 1

\* A worker whose loop ends when the fetch returned None, None, None.
WorkerHandleExits(w) ==
    /\ wpc[w] = "handle"
    /\ data_queue' = Append(data_queue, wres[w])
    /\ dq_unfinished' = dq_unfinished + 1
    /\ pq_unfinished' = pq_unfinished - 1
    /\ progress' = progress + 1
    /\ wpc' = [wpc EXCEPT ![w] = IF wres[w].is_none THEN "exited" ELSE "get"]
    /\ wres' = [wres EXCEPT ![w] = NoneTriple]
    /\ witem' = [witem EXCEPT ![w] = 0]
    /\ UNCHANGED << product_ids, faults, error_log, product_queue, permits, wbody,
                    seen_sellers, wrpc, wrpayload, product_file, listing_file,
                    seller_file, mpc, next_id >>
    /\ UNCHANGED << sitemap_vars, hydra_vars >>

\* A worker that appends the aggregate record to product_data.jsonl itself.
WorkerHandleWritesFile(w) ==
    /\ wpc[w] = "handle"
    /\ data_queue' = Append(data_queue, wres[w])
    /\ dq_unfinished' = dq_unfinished + 1
    /\ pq_unfinished' = pq_unfinished - 1
    /\ product_file' = IF Truthy(wres[w].product_data)
                       THEN Append(product_file, wres[w].product_data)
                       ELSE product_file
    /\ progress' = progress + 1
    /\ wpc' = [wpc EXCEPT ![w] = "get"]
    /\ wres' = [wres EXCEPT ![w] = NoneTriple]
    /\ witem' = [witem EXCEPT ![w] = 0]
    /\ UNCHANGED << product_ids, faults, error_log, product_queue, permits, wbody,
                    seen_sellers, wrpc, wrpayload, listing_file, seller_file,
                    mpc, next_id >>
    /\ UNCHANGED << sitemap_vars, hydra_vars >>

\* A worker that does not acknowledge the id it has handled.
WorkerHandleNoAck(w) ==
    /\ wpc[w] = "handle"
    /\ data_queue' = Append(data_queue, wres[w])
    /\ dq_unfinished' = dq_unfinished + 1
    /\ progress' = progress + 1
    /\ wpc' = [wpc EXCEPT ![w] = "get"]
    /\ wres' = [wres EXCEPT ![w] = NoneTriple]
    /\ witem' = [witem EXCEPT ![w] = 0]
    /\ UNCHANGED << product_ids, faults, error_log, product_queue, pq_unfinished,
                    permits, wbody, seen_sellers, wrpc, wrpayload, product_file,
                    listing_file, seller_file, mpc, next_id >>
    /\ UNCHANGED << sitemap_vars, hydra_vars >>

WorkerHandle(w) ==
    /\ wpc[w] = "handle"
    /\ IF Requeues(wres[w])
       THEN /\ ~QueueFull(product_queue)
            /\ product_queue' = Append(product_queue, witem[w])
            /\ pq_unfinished' = (pq_unfinished + 1) - 1
            /\ UNCHANGED << data_queue, dq_unfinished >>
       ELSE /\ data_queue' = Append(data_queue, wres[w])
            /\ dq_unfinished' = dq_unfinished + 1
            /\ pq_unfinished' = pq_unfinished - 1
            /\ UNCHANGED product_queue
    /\ progress' = ProgressUpdate(progress, wres[w])
    /\ wpc' = [wpc EXCEPT ![w] = "get"]
    /\ wres' = [wres EXCEPT ![w] = NoneTriple]
    /\ witem' = [witem EXCEPT ![w] = 0]
    /\ UNCHANGED << product_ids, faults, error_log, permits, wbody, seen_sellers,
                    wrpc, wrpayload, product_file, listing_file, seller_file,
                    mpc, next_id >>
    /\ UNCHANGED << sitemap_vars, hydra_vars >>

(***************************************************************************)
(* write_data, lines 418-434 (the second definition of that name, which   *)
(* replaces the one at lines 396-415 when the module is loaded).          *)
(***************************************************************************)
\* A writer that takes the payload put last instead of the one put first.
WriterGetLast ==
    /\ wrpc = "get"
    /\ data_queue # <<>>
    /\ wrpayload' = data_queue[Len(data_queue)]
    /\ data_queue' = SubSeq(data_queue, 1, Len(data_queue) - 1)
    /\ wrpc' = "product"
    /\ UNCHANGED << product_ids, faults, error_log, product_queue, pq_unfinished,
                    dq_unfinished, permits, wpc, witem, wbody, wres, seen_sellers,
                    product_file, listing_file, seller_file, mpc, next_id,
                    progress >>
    /\ UNCHANGED << sitemap_vars, hydra_vars >>

WriterGet ==
    /\ wrpc = "get"
    /\ data_queue # <<>>
    /\ wrpayload' = Head(data_queue)
    /\ data_queue' = Tail(data_queue)
    /\ wrpc' = "product"
    /\ UNCHANGED << product_ids, faults, error_log, product_queue, pq_unfinished,
                    dq_unfinished, permits, wpc, witem, wbody, wres, seen_sellers,
                    product_file, listing_file, seller_file, mpc, next_id,
                    progress >>
    /\ UNCHANGED << sitemap_vars, hydra_vars >>

WriteProduct ==
    /\ wrpc = "product"
    /\ product_file' = IF Truthy(wrpayload.product_data)
                       THEN Append(product_file, wrpayload.product_data)
                       ELSE product_file
    /\ wrpc' = "listing"
    /\ UNCHANGED << product_ids, faults, error_log, product_queue, pq_unfinished,
                    data_queue, dq_unfinished, permits, wpc, witem, wbody, wres,
                    seen_sellers, wrpayload, listing_file, seller_file, mpc,
                    next_id, progress >>
    /\ UNCHANGED << sitemap_vars, hydra_vars >>

WriteListings ==
    /\ wrpc = "listing"
    /\ listing_file' = IF ~wrpayload.is_none /\ wrpayload.listing_data # <<>>
                       THEN listing_file \o wrpayload.listing_data
                       ELSE listing_file
    /\ wrpc' = "seller"
    /\ UNCHANGED << product_ids, faults, error_log, product_queue, pq_unfinished,
                    data_queue, dq_unfinished, permits, wpc, witem, wbody, wres,
                    seen_sellers, wrpayload, product_file, seller_file, mpc,
                    next_id, progress >>
    /\ UNCHANGED << sitemap_vars, hydra_vars >>

WriteSellers ==
    /\ wrpc = "seller"
    /\ seller_file' = IF ~wrpayload.is_none
                      THEN seller_file \o wrpayload.seller_data
                      ELSE seller_file
    /\ dq_unfinished' = dq_unfinished - 1
    /\ wrpayload' = NoneTriple
    /\ wrpc' = "get"
    /\ UNCHANGED << product_ids, faults, error_log, product_queue, pq_unfinished,
                    data_queue, permits, wpc, witem, wbody, wres, seen_sellers,
                    product_file, listing_file, mpc, next_id, progress >>
    /\ UNCHANGED << sitemap_vars, hydra_vars >>

Next ==
    \/ Enqueue
    \/ JoinProductQueue
    \/ JoinDataQueue
    \/ \E w \in Workers : WorkerGet(w)
    \/ \E w \in Workers : FetchAcquire(w)
    \/ \E w \in Workers : FetchResponse(w)
    \/ \E w \in Workers : FetchParse(w)
    \/ \E w \in Workers : WorkerHandle(w)
    \/ WriterGet
    \/ WriteProduct
    \/ WriteListings
    \/ WriteSellers

Spec == Init /\ [][Next]_vars

(***************************************************************************)
(* Quantities the properties below speak about.                            *)
(***************************************************************************)
\* The positions of s whose entry satisfies Test.
Positions(s, Test(_)) == { k \in 1..Len(s) : Test(s[k]) }

\* The workers whose request is sent and whose fetch has not returned.
InFlight == { w \in Workers : wpc[w] \in {"post", "parse"} }

\* The workers that hold a dequeued id they have not acknowledged.
Holding == { w \in Workers : wpc[w] # "get" }

Returned == mpc = "returned"

\* How many records of each file belong to a product or to a seller.
ProductRecords(product_id) ==
    Cardinality(Positions(product_file, LAMBDA r : r.product_id = product_id))

ListingRecords(product_id, tcg_id) ==
    Cardinality(Positions(listing_file,
                          LAMBDA r : r.product_id = product_id /\ r.tcg_id = tcg_id))

SellerRecords(seller_key) ==
    Cardinality(Positions(seller_file, LAMBDA r : r.seller_key = seller_key))

Occurrences(product_id) ==
    Cardinality(Positions(product_ids, LAMBDA id : id = product_id))

KeysOf(product_id) ==
    { Catalog(product_id)[k].sellerKey : k \in 1..Len(Catalog(product_id)) }

RECURSIVE TotalListings(_)
TotalListings(ids) ==
    IF ids = <<>> THEN 0
    ELSE Len(Catalog(Head(ids))) + TotalListings(Tail(ids))

\* The error records of one kind logged for a product.
Logged(kind, product_id) ==
    \E k \in 1..Len(error_log) : error_log[k] = << kind, product_id >>

(***************************************************************************)
(* C1.  At most SemaphoreSize calls of fetch_product_data are inside the   *)
(* permit (request sent, outcome not yet returned) in any reachable state, *)
(* with more workers than permits.                                         *)
(***************************************************************************)
C1_InFlightAtMostPermits ==
    /\ Cardinality(InFlight) <= SemaphoreSize
    /\ permits = SemaphoreSize - Cardinality(InFlight)

\* Every permit is taken and one more worker waits for one.
C1_Witness ==
    /\ Cardinality(InFlight) = SemaphoreSize
    /\ \E w \in Workers : wpc[w] = "acquire"

(***************************************************************************)
(* C2.  When the run has returned, every sellerKey listed by two or more   *)
(* successful fetches has exactly one record in the seller file.           *)
(***************************************************************************)
SuccessesListing(seller_key) ==
    Cardinality(Positions(product_file,
                          LAMBDA r : seller_key \in KeysOf(r.product_id)))

C2_SharedSellerWrittenOnce ==
    Returned =>
        \A key \in SellerKeys :
            SuccessesListing(key) >= 2 => SellerRecords(key) = 1

(***************************************************************************)
(* C3.  When the run has returned, the progress bar has advanced exactly   *)
(* once per product id of the list.                                        *)
(***************************************************************************)
C3_ProgressEqualsIds == Returned => progress = Len(product_ids)

\* A run of several ids, one of whose fetches failed, has returned.
C3_Witness ==
    /\ Returned
    /\ Len(product_ids) >= 2
    /\ error_log # <<>>
    /\ progress = Len(product_ids)

(***************************************************************************)
(* C4.  Whenever a worker finishes with an id whose fetch ended in a       *)
(* failure (None, None, None), the id is back on the product queue for     *)
(* another attempt.                                                        *)
(***************************************************************************)
C4_FailureIsRequeued ==
    [][ \A w \in Workers :
          (wpc[w] = "handle" /\ wres[w].is_none /\ wpc'[w] = "get")
              => witem[w] \in Range(product_queue') ]_vars

(***************************************************************************)
(* C5.  fetch_and_write_product_data returns only when every enqueued id   *)
(* has been dequeued and acknowledged and every payload put on data_queue  *)
(* has been processed by the writer to the end: the records of every       *)
(* successful fetch are in the files.                                      *)
(***************************************************************************)
C5_ReturnsOnlyWhenDrained ==
    Returned =>
        /\ product_queue = <<>> /\ pq_unfinished = 0
        /\ Holding = {}
        /\ progress = Len(product_ids)
        /\ data_queue = <<>> /\ dq_unfinished = 0
        /\ wrpc = "get"
        /\ Len(product_file) = Len(product_ids) - Len(error_log)
        /\ \A k \in 1..Len(product_file) :
              \A n \in 1..product_file[k].totalResults :
                  ListingRecords(product_file[k].product_id, n)
                      = ProductRecords(product_file[k].product_id)

\* The run has returned with the records of a successful fetch in the files.
C5_Witness ==
    /\ Returned
    /\ product_file # <<>>
    /\ listing_file # <<>>

(***************************************************************************)
(* C6.  When the run has returned, an id of the list whose request was     *)
(* answered with a non-success status, and which the endpoint answers well *)
(* from then on, has its aggregate record and each of its detail records   *)
(* in the files exactly once.                                              *)
(***************************************************************************)
C6_FailedThenSucceededOnce ==
    Returned =>
        \A id \in Range(product_ids) :
            (Occurrences(id) = 1 /\ Logged("http", id) /\ faults = 0)
                => /\ ProductRecords(id) = 1
                   /\ \A n \in 1..Len(Catalog(id)) : ListingRecords(id, n) = 1

(***************************************************************************)
(* C7.  The product queue never holds more than QueueMaxsize ids, and a    *)
(* put on a full queue loses nothing: every id put so far is in the queue, *)
(* held by a worker or acknowledged, and the suspended producer still has  *)
(* the ids it has not put.                                                 *)
(***************************************************************************)
C7_QueueWithinMaxsize ==
    /\ Len(product_queue) <= QueueMaxsize
    /\ next_id - 1 = Len(product_queue) + Cardinality(Holding) + progress
    /\ pq_unfinished = Len(product_queue) + Cardinality(Holding)
    /\ mpc = "enqueue" <=> next_id <= Len(product_ids)

\* The queue is full and the producer is suspended in put with ids left.
C7_Witness ==
    /\ mpc = "enqueue"
    /\ QueueFull(product_queue)
    /\ Len(product_queue) = QueueMaxsize

(***************************************************************************)
(* C8.  When a run in which no fetch failed has returned, the product file *)
(* holds one record per id of the list, the listing file one record per    *)
(* listing of those ids, and the seller file one record per distinct       *)
(* sellerKey of those listings.                                            *)
(***************************************************************************)
C8_AllSucceedCounts ==
    (Returned /\ error_log = <<>>) =>
        /\ \A id \in Items : ProductRecords(id) = Occurrences(id)
        /\ Len(product_file) = Len(product_ids)
        /\ Len(listing_file) = TotalListings(product_ids)
        /\ \A id \in Items :
              \A n \in 1..Len(Catalog(id)) : ListingRecords(id, n) = Occurrences(id)
        /\ \A key \in SellerKeys :
              SellerRecords(key) =
                  IF \E id \in Range(product_ids) : key \in KeysOf(id) THEN 1 ELSE 0
        /\ Len(seller_file) =
              Cardinality(UNION { KeysOf(id) : id \in Range(product_ids) })

\* The run over [101, 102] has returned with 2, 3 and 2 records.
C8_Witness ==
    /\ Returned
    /\ error_log = <<>>
    /\ product_ids = << 101, 102 >>
    /\ Len(product_file) = 2
    /\ Len(listing_file) = 3
    /\ Len(seller_file) = 2
    /\ SellerRecords("A") = 1

(***************************************************************************)
(* C9.  Every step that appends records to the seller file appends only    *)
(* records whose key is not in seen_sellers before the step, and adds      *)
(* those keys to seen_sellers.                                             *)
(***************************************************************************)
C9_AppendedKeyIsNew ==
    [][ \A k \in (Len(seller_file) + 1)..Len(seller_file') :
          /\ seller_file'[k].seller_key \notin seen_sellers
          /\ seller_file'[k].seller_key \in seen_sellers' ]_vars

(***************************************************************************)
(* C10.  No step removes a key from seen_sellers.                          *)
(***************************************************************************)
C10_SeenSellersGrows == [][ seen_sellers \subseteq seen_sellers' ]_vars

\* The set has grown twice: both sellers are in it.
C10_Witness == seen_sellers = SellerKeys

(***************************************************************************)
(* C11.  Only the writer changes seen_sellers: every step of a worker,     *)
(* whether in worker or in fetch_product_data, leaves the set unchanged.   *)
(***************************************************************************)
C11_OnlyWriterChangesSeen ==
    [][ (\E w \in Workers : wpc'[w] # wpc[w]) => seen_sellers' = seen_sellers ]_vars

(***************************************************************************)
(* C12.  Only the writer appends to the three files: a step that changes   *)
(* a file is a step of write_data, changes one file only, extends it by    *)
(* whole records, and leaves every worker and the producer where they are. *)
(***************************************************************************)
Files == << product_file, listing_file, seller_file >>

IsPrefix(s, t) == Len(s) <= Len(t) /\ SubSeq(t, 1, Len(s)) = s

C12_OnlyWriterAppends ==
    [][ Files' # Files =>
          /\ wrpc \in {"product", "listing", "seller"} /\ wrpc' # wrpc
          /\ wpc' = wpc /\ wres' = wres
          /\ mpc' = mpc /\ next_id' = next_id
          /\ IsPrefix(product_file, product_file')
          /\ IsPrefix(listing_file, listing_file')
          /\ IsPrefix(seller_file, seller_file')
          /\ Cardinality({ k \in 1..3 : Files'[k] # Files[k] }) = 1 ]_vars

\* The writer has appended to each of the three files.
C12_Witness ==
    /\ product_file # <<>>
    /\ listing_file # <<>>
    /\ seller_file # <<>>

(***************************************************************************)
(* C13.  Every occurrence of an id put on the product queue is taken by    *)
(* one worker and fetched once: for each id, the occurrences put so far    *)
(* are those still in the queue, those held by a worker and those          *)
(* acknowledged, and the outcomes produced for the id (error records and   *)
(* successful triples) are one per occurrence whose fetch has returned.    *)
(***************************************************************************)
PutSoFar(id) ==
    Cardinality({ k \in 1..(next_id - 1) : product_ids[k] = id })

InQueue(id) ==
    Cardinality({ k \in 1..Len(product_queue) : product_queue[k] = id })

HeldBy(id) == { w \in Workers : wpc[w] # "get" /\ witem[w] = id }

\* The occurrences of id whose fetch has not returned yet.
Fetching(id) == { w \in Workers : wpc[w] \in {"acquire", "post", "parse"}
                                  /\ witem[w] = id }

ErrorRecords(id) ==
    Cardinality({ k \in 1..Len(error_log) : error_log[k][2] = id })

\* The successful triples for id, wherever they are on their way to the file.
SuccessTriples(id) ==
      Cardinality({ w \in Workers : wpc[w] = "handle" /\ witem[w] = id
                                    /\ ~wres[w].is_none })
    + Cardinality({ k \in 1..Len(data_queue) :
                      data_queue[k].product_data.product_id = id })
    + (IF wrpc = "product" /\ wrpayload.product_data.product_id = id THEN 1 ELSE 0)
    + Cardinality({ k \in 1..Len(product_file) : product_file[k].product_id = id })

C13_EachEntryFetchedOnce ==
    /\ Range(product_queue) \subseteq Range(product_ids)
    /\ \A w \in Workers : wpc[w] # "get" => witem[w] \in Range(product_ids)
    /\ \A id \in Range(product_ids) :
          LET put    == PutSoFar(id)
              queued == InQueue(id)
          IN  /\ queued + Cardinality(HeldBy(id)) <= put
              /\ ErrorRecords(id) + SuccessTriples(id)
                    = put - queued - Cardinality(Fetching(id))

\* Two workers hold two occurrences of the same id at the same time.
C13_Witness ==
    \E w, v \in Workers :
        /\ w # v
        /\ wpc[w] = "post" /\ wpc[v] = "acquire"
        /\ witem[w] = witem[v]

(***************************************************************************)
(* C14.  fetch_product_data never raises: whatever the endpoint answers,   *)
(* the worker that handles the outcome holds either None, None, None (no   *)
(* record) or the three record groups of its product, and every failure    *)
(* has left an error record.                                               *)
(***************************************************************************)
C14_FetchNeverRaises ==
    /\ \A w \in Workers :
          /\ ~wres[w].raised
          /\ wpc[w] = "handle" =>
                \/ wres[w] = NoneTriple
                \/ /\ ~wres[w].is_none
                   /\ wres[w].product_data = ProductData(witem[w])
                   /\ wres[w].listing_data = ListingData(witem[w])
    /\ Cardinality({ w \in Workers : wpc[w] = "handle" /\ wres[w].is_none })
          <= Len(error_log)

\* A worker handles the outcome of a request that ended in a network error.
C14_Witness ==
    \E w \in Workers :
        /\ wpc[w] = "handle"
        /\ wres[w] = NoneTriple
        /\ Logged("net", witem[w])

(***************************************************************************)
(* The pipeline with a file system that can refuse an append.  An          *)
(* exception of aiofiles.open or write leaves write_data (lines 418-434    *)
(* have no try): the writer task ends with the exception stored in it, and *)
(* no code awaits the task or looks at it.                                 *)
(***************************************************************************)
WriterFails ==
    /\ \/ wrpc = "product" /\ Truthy(wrpayload.product_data)
       \/ wrpc = "listing" /\ ~wrpayload.is_none /\ wrpayload.listing_data # <<>>
       \/ wrpc = "seller" /\ ~wrpayload.is_none
    /\ wrpc' = "dead"
    /\ UNCHANGED << product_ids, faults, error_log, product_queue, pq_unfinished,
                    data_queue, dq_unfinished, permits, wpc, witem, wbody, wres,
                    seen_sellers, wrpayload, product_file, listing_file,
                    seller_file, mpc, next_id, progress >>
    /\ UNCHANGED << sitemap_vars, hydra_vars >>

NextSinkError == Next \/ WriterFails

SpecSinkError == Init /\ [][NextSinkError]_vars

(***************************************************************************)
(* C15.  Once an append has failed in the writer the run does not hang:    *)
(* whenever no task can take a step any more, the orchestrator has ended   *)
(* the run and reported the error.                                         *)
(***************************************************************************)
RunEndedWithError == mpc = "failed"

C15_SinkErrorEndsRun ==
    (wrpc = "dead" /\ ~ENABLED NextSinkError) => RunEndedWithError

(***************************************************************************)
(* C16.  Once fetch_and_write_product_data has returned, no worker task    *)
(* and no writer task is left waiting on a queue get: each was told to     *)
(* stop and has stopped.                                                   *)
(***************************************************************************)
WaitingOnGet == { w \in Workers : wpc[w] = "get" }

C16_TasksStoppedAtReturn ==
    Returned => (WaitingOnGet = {} /\ wrpc # "get")

(***************************************************************************)
(* scrape_category from line 467 on: extract_product_ids has returned a    *)
(* list, possibly empty, and no queue or task exists yet.  An empty list   *)
(* and a failure to save product_ids.json are logged and end the call;     *)
(* otherwise fetch_and_write_product_data creates the worker tasks and the *)
(* writer task and starts to enqueue.                                      *)
(***************************************************************************)
InitCategory ==
    /\ product_ids \in IdLists \cup { <<>> }
    /\ faults = MaxFaults
    /\ error_log = <<>>
    /\ product_queue = <<>>
    /\ pq_unfinished = 0
    /\ data_queue = <<>>
    /\ dq_unfinished = 0
    /\ permits = SemaphoreSize
    /\ wpc = [w \in Workers |-> "absent"]
    /\ witem = [w \in Workers |-> 0]
    /\ wbody = [w \in Workers |-> NoBody]
    /\ wres = [w \in Workers |-> NoneTriple]
    /\ seen_sellers = {}
    /\ wrpc = "absent"
    /\ wrpayload = NoneTriple
    /\ product_file = <<>>
    /\ listing_file = <<>>
    /\ seller_file = <<>>
    /\ mpc = "extracted"
    /\ next_id = 1
    /\ progress = 0
    /\ SitemapIdle
    /\ HydraIdle

\* scrape_category without the test of line 468: the pipeline is started on
\* the empty list, whose enqueue loop puts nothing.
CheckProductIdsNoTest ==
    /\ mpc = "extracted"
    /\ \E saved \in BOOLEAN :
         IF ~saved
         THEN /\ error_log' = Append(error_log, << "save", 0 >>)
              /\ mpc' = "aborted"
              /\ UNCHANGED << wpc, wrpc >>
         ELSE /\ wpc' = [w \in Workers |-> "get"]
              /\ wrpc' = "get"
              /\ mpc' = IF product_ids = <<>> THEN "join_product" ELSE "enqueue"
              /\ UNCHANGED error_log
    /\ UNCHANGED << product_ids, faults, product_queue, pq_unfinished, data_queue,
                    dq_unfinished, permits, witem, wbody, wres, seen_sellers,
                    wrpayload, product_file, listing_file, seller_file, next_id,
                    progress >>
    /\ UNCHANGED << sitemap_vars, hydra_vars >>

CheckProductIds ==
    /\ mpc = "extracted"
    /\ IF product_ids = <<>>
       THEN /\ error_log' = Append(error_log, << "no_ids", 0 >>)
            /\ mpc' = "aborted"
            /\ UNCHANGED << wpc, wrpc >>
       ELSE \E saved \in BOOLEAN :
              IF ~saved
              THEN /\ error_log' = Append(error_log, << "save", 0 >>)
                   /\ mpc' = "aborted"
                   /\ UNCHANGED << wpc, wrpc >>
              ELSE /\ wpc' = [w \in Workers |-> "get"]
                   /\ wrpc' = "get"
                   /\ mpc' = "enqueue"
                   /\ UNCHANGED error_log
    /\ UNCHANGED << product_ids, faults, product_queue, pq_unfinished, data_queue,
                    dq_unfinished, permits, witem, wbody, wres, seen_sellers,
                    wrpayload, product_file, listing_file, seller_file, next_id,
                    progress >>
    /\ UNCHANGED << sitemap_vars, hydra_vars >>

NextCategory == CheckProductIds \/ Next

SpecCategory == InitCategory /\ [][NextCategory]_vars

(***************************************************************************)
(* C17.  With an empty list of product ids scrape_category ends with a     *)
(* logged error before the pipeline exists: no worker or writer task is    *)
(* created, nothing is enqueued and no file is appended to.                *)
(***************************************************************************)
C17_NoIdsFailsFast ==
    product_ids = <<>> =>
        /\ mpc \in {"extracted", "aborted"}
        /\ mpc = "aborted" => error_log = << << "no_ids", 0 >> >>
        /\ \A w \in Workers : wpc[w] = "absent"
        /\ wrpc = "absent"
        /\ product_queue = <<>> /\ pq_unfinished = 0
        /\ data_queue = <<>> /\ dq_unfinished = 0
        /\ Files = << <<>>, <<>>, <<>> >>

\* scrape_category has ended on an empty list, with the error logged.
C17_Witness ==
    /\ product_ids = <<>>
    /\ mpc = "aborted"
    /\ error_log = << << "no_ids", 0 >> >>

(***************************************************************************)
(* C18.  A failed fetch costs only its own occurrence of an id: when the   *)
(* run has returned, every other occurrence has its aggregate record and   *)
(* its detail records in the files, and every seller of a successfully     *)
(* fetched product has its record in the seller file.                      *)
(***************************************************************************)
C18_FailureAffectsOnlyItsItem ==
    Returned =>
        \A id \in Items :
            /\ ProductRecords(id) = Occurrences(id) - ErrorRecords(id)
            /\ \A n \in 1..Len(Catalog(id)) :
                  ListingRecords(id, n) = Occurrences(id) - ErrorRecords(id)
            /\ ProductRecords(id) > 0 =>
                  \A key \in KeysOf(id) : SellerRecords(key) = 1

(***************************************************************************)
(* C19.  A worker never leaves its loop: every step keeps every worker at  *)
(* a position of the loop, and the step that handles an outcome, success   *)
(* or failure, acknowledges the id and takes the worker back to the get.   *)
(***************************************************************************)
LoopPositions == {"get", "acquire", "post", "parse", "handle"}

C19_WorkerNeverExits ==
    [][ \A w \in Workers :
          /\ wpc[w] \in LoopPositions /\ wpc'[w] \in LoopPositions
          /\ (wpc[w] = "handle" /\ wpc'[w] # "handle") =>
                /\ wpc'[w] = "get"
                /\ progress' = progress + 1
                /\ pq_unfinished' + Len(product_queue)
                      = pq_unfinished + Len(product_queue') - 1 ]_vars

\* A worker that handled a failed fetch is back at the get while the run
\* is still going on.
C19_Witness ==
    /\ error_log # <<>>
    /\ ~Returned
    /\ progress >= 1
    /\ \A w \in Workers : wpc[w] = "get"
    /\ product_queue # <<>>

(***************************************************************************)
(* C20.  When a response lists one seller several times, the record of     *)
(* that seller in the seller_data of the response carries the fields of    *)
(* the last of those listings.                                             *)
(***************************************************************************)
ListingsOf(product_id, seller_key) ==
    { k \in 1..Len(Catalog(product_id)) :
        Catalog(product_id)[k].sellerKey = seller_key }

FirstListing(product_id, seller_key) ==
    Catalog(product_id)[CHOOSE k \in ListingsOf(product_id, seller_key) :
                           \A n \in ListingsOf(product_id, seller_key) : k <= n]

LastListing(product_id, seller_key) ==
    Catalog(product_id)[CHOOSE k \in ListingsOf(product_id, seller_key) :
                           \A n \in ListingsOf(product_id, seller_key) : k >= n]

\* The workers that hold the triple of a successful fetch.
HoldingTriple == { w \in Workers : wpc[w] = "handle" /\ ~wres[w].is_none }

C21_ChannelOnlySuccess ==
    \A k \in 1..Len(data_queue) : ~data_queue[k].is_none

(***************************************************************************)
(* C21, amended.  After a failed fetch the worker does not put the id      *)
(* back, and it puts the payload None, None, None on data_queue; the       *)
(* payload carries no record, and the writer appends nothing for it.       *)
(***************************************************************************)
C21_FailureForwardsEmptyPayload ==
    [][ /\ \A w \in Workers :
              (wpc[w] = "handle" /\ wres[w].is_none /\ wpc'[w] # "handle")
                  => /\ product_queue' = product_queue
                     /\ data_queue' = Append(data_queue, NoneTriple)
        /\ (wrpc # "get" /\ wrpayload.is_none) => Files' = Files ]_vars

\* The writer has gone through the payload of a failed fetch down to its
\* last step.
C21_Witness ==
    /\ wrpc = "seller"
    /\ wrpayload = NoneTriple
    /\ error_log # <<>>

(***************************************************************************)
(* C22.  The aggregate records of the product file, and the groups of      *)
(* detail records of the listing file, are in the order in which the       *)
(* workers put their payloads on data_queue, whatever the order of the     *)
(* ids in the list.  The arrival order is the records already in the file, *)
(* then those of the payload the writer holds and has not written, then    *)
(* those of the payloads waiting in data_queue; a put of a worker extends  *)
(* it at the end and no other step changes it (a step that leaves the      *)
(* files, the writer and data_queue alone being the plain case of that).  *)
(***************************************************************************)
RECURSIVE ProductsOf(_)
ProductsOf(payloads) ==
    IF payloads = <<>> THEN <<>>
    ELSE (IF Head(payloads).is_none THEN <<>> ELSE << Head(payloads).product_data >>)
         \o ProductsOf(Tail(payloads))

RECURSIVE ListingsIn(_)
ListingsIn(payloads) ==
    IF payloads = <<>> THEN <<>>
    ELSE Head(payloads).listing_data \o ListingsIn(Tail(payloads))

ArrivalProducts ==
    product_file
    \o (IF wrpc = "product" THEN ProductsOf(<< wrpayload >>) ELSE <<>>)
    \o ProductsOf(data_queue)

ArrivalListings ==
    listing_file
    \o (IF wrpc \in {"product", "listing"} THEN wrpayload.listing_data ELSE <<>>)
    \o ListingsIn(data_queue)

C22_FilesInArrivalOrder ==
    [][ \/ UNCHANGED << product_file, listing_file, wrpc, wrpayload, data_queue >>
        \/ /\ IsPrefix(data_queue, data_queue') => data_queue' = data_queue
           /\ ArrivalProducts' = ArrivalProducts
           /\ ArrivalListings' = ArrivalListings
        \/ \E w \in Workers :
              /\ wpc[w] = "handle" /\ wpc'[w] = "get"
              /\ data_queue' = Append(data_queue, wres[w])
              /\ ArrivalProducts' = ArrivalProducts \o ProductsOf(<< wres[w] >>)
              /\ ArrivalListings' = ArrivalListings \o wres[w].listing_data ]_vars

\* The run over [101, 102] has returned with the records of 102 before
\* those of 101 in both files.
C22_Witness ==
    /\ Returned
    /\ product_ids = << 101, 102 >>
    /\ Len(product_file) = 2
    /\ product_file[1].product_id = 102
    /\ listing_file[1].product_id = 102

(***************************************************************************)
(* C28.  When the run has returned, every key of seen_sellers has exactly  *)
(* one record in the seller file: no key is marked as seen without its     *)
(* record being written, also when the seller loop of a response stops on  *)
(* a listing after it has added keys to the set.                           *)
(***************************************************************************)
C28_SeenKeyHasRecord ==
    Returned => \A key \in seen_sellers : SellerRecords(key) = 1

(***************************************************************************)
(* The pipeline under the scheduling of the asyncio event loop: a task     *)
(* that is ready to run is run, so no task that can take a step waits for  *)
(* ever.  The steps of a worker include the arrival of the response to its *)
(* request: every request is answered, well or not.                        *)
(***************************************************************************)
OrchestratorStep == Enqueue \/ JoinProductQueue \/ JoinDataQueue

WorkerStep(w) ==
    \/ WorkerGet(w)
    \/ FetchAcquire(w)
    \/ FetchResponse(w)
    \/ FetchParse(w)
    \/ WorkerHandle(w)

WriterStep == WriterGet \/ WriteProduct \/ WriteListings \/ WriteSellers

Fairness ==
    /\ WF_vars(OrchestratorStep)
    /\ \A w \in Workers : WF_vars(WorkerStep(w))
    /\ WF_vars(WriterStep)

\* The lists 101; 101, 102; 101, 102, 103, and a list that repeats an id.
FairIdLists ==
    { SubSeq(<< 101, 102, 103 >>, 1, n) : n \in 1..MaxIds } \cup { << 103, 103 >> }

InitFair ==
    /\ product_ids \in FairIdLists
    /\ faults = MaxFaults
    /\ TasksAtFirstAwait

SpecFair == InitFair /\ [][Next]_vars /\ Fairness

(***************************************************************************)
(* C27.  With a non-empty list, every request answered and no append       *)
(* failing, fetch_and_write_product_data eventually returns: both joins    *)
(* complete.                                                               *)
(***************************************************************************)
C27_EventuallyReturns == <>Returned

\* A run over a list of full length has returned, with every task back at
\* its get.
C27_Witness ==
    /\ Returned
    /\ Len(product_ids) = MaxIds
    /\ \A w \in Workers : wpc[w] = "get"
    /\ wrpc = "get"
    /\ progress = MaxIds

\* No queue and no task of fetch_and_write_product_data exists.
PipelineAbsent ==
    /\ product_ids = <<>>
    /\ faults = MaxFaults
    /\ error_log = <<>>
    /\ product_queue = <<>>
    /\ pq_unfinished = 0
    /\ data_queue = <<>>
    /\ dq_unfinished = 0
    /\ permits = SemaphoreSize
    /\ wpc = [w \in Workers |-> "absent"]
    /\ witem = [w \in Workers |-> 0]
    /\ wbody = [w \in Workers |-> NoBody]
    /\ wres = [w \in Workers |-> NoneTriple]
    /\ seen_sellers = {}
    /\ wrpc = "absent"
    /\ wrpayload = NoneTriple
    /\ product_file = <<>>
    /\ listing_file = <<>>
    /\ seller_file = <<>>
    /\ next_id = 1
    /\ progress = 0

(***************************************************************************)
(* The sitemap functions.  A document is well formed or not (ET.fromstring *)
(* raises ParseError when it is not) and holds a list of entries; an entry *)
(* has a location text or none (no <loc> child, or an empty one, whose     *)
(* text is None).  A text is a sequence of pieces: a marker such as        *)
(* "/product/", a digit, a dot, a slash, a letter.                         *)
(***************************************************************************)
MaxEntries == 2

Entry(text) == [has_text |-> TRUE, text |-> text]

NoText == [has_text |-> FALSE, text |-> <<>>]

Document(entries) == [well_formed |-> TRUE, entries |-> entries]

Malformed == [well_formed |-> FALSE, entries |-> <<>>]

DocumentsOver(texts) ==
    { Malformed }
    \cup { Document(entries) :
             entries \in SeqsUpTo({ Entry(text) : text \in texts } \cup { NoText },
                                  MaxEntries) }

(***************************************************************************)
(* extract_product_ids, lines 192-206.  re.search(r"/product/(\d+)/", t)   *)
(* finds the leftmost place where "/product/" is followed by one digit or  *)
(* more and then by a slash; group(1) is the run of digits.                *)
(***************************************************************************)
ProductMarker == "/product/"

Digits == {"7"}

UrlPieces == {ProductMarker, "/"} \cup Digits

\* Every text of at most as many pieces as there are kinds of pieces, and a
\* few longer ones: two digits, a marker that fails before one that
\* matches, a letter after the digits, two ids in one text.
UrlTexts ==
    SeqsUpTo(UrlPieces, Cardinality(UrlPieces))
    \cup { << ProductMarker, "7", "7", "/" >>,
           << ProductMarker, ProductMarker, "7", "/" >>,
           << ProductMarker, "7", "x", "/" >>,
           << ProductMarker, "7", "/", ProductMarker, "7", "7", "/" >> }

ProductSitemaps == DocumentsOver(UrlTexts)

\* The last position of the run of digits that starts at position j
\* (j - 1 when text[j] is no digit).
RECURSIVE DigitsEnd(_, _)
DigitsEnd(text, j) ==
    IF j <= Len(text) /\ text[j] \in Digits THEN DigitsEnd(text, j + 1) ELSE j - 1

\* re.search from position k on: the match object's group(1), or None.
RECURSIVE ReSearch(_, _)
ReSearch(text, k) ==
    IF k > Len(text) THEN [found |-> FALSE, group1 |-> <<>>]
    ELSE LET last == DigitsEnd(text, k + 1)
         IN  IF /\ text[k] = ProductMarker
                /\ last >= k + 1
                /\ last + 1 <= Len(text)
                /\ text[last + 1] = "/"
             THEN [found |-> TRUE, group1 |-> SubSeq(text, k + 1, last)]
             ELSE ReSearch(text, k + 1)

\* A loop that leaves out an id it has already appended.
RECURSIVE ExtractLoopDedup(_, _, _)
ExtractLoopDedup(entries, k, ids) ==
    IF k > Len(entries) THEN [raised |-> FALSE, ids |-> ids]
    ELSE IF ~entries[k].has_text THEN [raised |-> TRUE, ids |-> ids]
    ELSE LET product_id == ReSearch(entries[k].text, 1)
         IN  ExtractLoopDedup(entries, k + 1,
                              IF product_id.found /\ product_id.group1 \notin Range(ids)
                              THEN Append(ids, product_id.group1) ELSE ids)

\* The loop of lines 197-201; an entry without text raises (AttributeError
\* on None.text, or TypeError in re.search).
RECURSIVE ExtractLoop(_, _, _)
ExtractLoop(entries, k, ids) ==
    IF k > Len(entries) THEN [raised |-> FALSE, ids |-> ids]
    ELSE IF ~entries[k].has_text THEN [raised |-> TRUE, ids |-> ids]
    ELSE LET product_id == ReSearch(entries[k].text, 1)
         IN  ExtractLoop(entries, k + 1,
                         IF product_id.found
                         THEN Append(ids, product_id.group1) ELSE ids)

\* scrape_category, line 467: product_ids = extract_product_ids(...).  Every
\* exception is caught, logged and answered with the empty list.
ExtractProductIds ==
    /\ mpc = "sitemap"
    /\ LET loop == ExtractLoop(xml_content.entries, 1, <<>>)
       IN  IF ~xml_content.well_formed \/ loop.raised
           THEN /\ error_log' = Append(error_log, << "extract", 0 >>)
                /\ product_ids' = <<>>
           ELSE /\ product_ids' = loop.ids
                /\ UNCHANGED error_log
    /\ mpc' = "extracted"
    /\ UNCHANGED << faults, product_queue, pq_unfinished, data_queue,
                    dq_unfinished, permits, wpc, witem, wbody, wres, seen_sellers,
                    wrpc, wrpayload, product_file, listing_file, seller_file,
                    next_id, progress >>
    /\ UNCHANGED << sitemap_vars, hydra_vars >>

\* scrape_category before line 467: the category sitemap has been fetched.
InitExtract ==
    /\ xml_content \in ProductSitemaps
    /\ sitemap_urls = <<>>
    /\ PipelineAbsent
    /\ mpc = "sitemap"
    /\ HydraIdle

NextExtract == ExtractProductIds

SpecExtract == InitExtract /\ [][NextExtract]_vars

(***************************************************************************)
(* C24.  extract_product_ids returns, in the order of the document and     *)
(* with repetitions kept, the id of every url entry whose location holds   *)
(* "/product/<digits>/", and returns the empty list, without raising, when *)
(* the document is malformed (not well formed, or with a url entry that    *)
(* has no location text).                                                  *)
(***************************************************************************)
\* The places of a text where "/product/<digits>/" begins: i is the marker
\* and j the closing slash.
ProductPlaces(text) ==
    { i \in 1..Len(text) :
        /\ text[i] = ProductMarker
        /\ \E j \in (i + 2)..Len(text) :
              /\ text[j] = "/"
              /\ \A m \in (i + 1)..(j - 1) : text[m] \in Digits }

HoldsProduct(entry) == ProductPlaces(entry.text) # {}

\* The digits of the first such place.
IdIn(text) ==
    LET i == CHOOSE p \in ProductPlaces(text) : \A q \in ProductPlaces(text) : p <= q
        j == CHOOSE n \in (i + 2)..Len(text) :
                 /\ text[n] = "/"
                 /\ \A m \in (i + 1)..(n - 1) : text[m] \in Digits
    IN  SubSeq(text, i + 1, j - 1)

IdsOfDocument(entries) ==
    LET holding == SelectSeq(entries, HoldsProduct)
    IN  [k \in 1..Len(holding) |-> IdIn(holding[k].text)]

Readable(document) ==
    /\ document.well_formed
    /\ \A k \in 1..Len(document.entries) : document.entries[k].has_text

C24_ExtractsEveryId ==
    /\ mpc \in {"sitemap", "extracted"}
    /\ mpc = "extracted" =>
          IF Readable(xml_content)
          THEN /\ product_ids = IdsOfDocument(xml_content.entries)
               /\ error_log = <<>>
          ELSE /\ product_ids = <<>>
               /\ error_log = << << "extract", 0 >> >>

\* A document whose two entries name product 7 has given the list [7, 7].
C24_Witness ==
    /\ mpc = "extracted"
    /\ Len(xml_content.entries) = 2
    /\ xml_content.entries[1] = xml_content.entries[2]
    /\ product_ids = << << "7" >>, << "7" >> >>

(***************************************************************************)
(* parse_sitemap_index, lines 129-148.  For each <loc> element the         *)
(* category is elem.text.split("/sitemap/")[1].split(".")[0]: the part of  *)
(* the text after the first "/sitemap/", up to the next "/sitemap/" if any *)
(* and then up to the first dot if any.  An element without text raises    *)
(* AttributeError and a text without "/sitemap/" raises IndexError; the    *)
(* function catches ET.ParseError only.                                    *)
(***************************************************************************)
SitemapMarker == "/sitemap/"

IndexPieces == {SitemapMarker, ".", "a"}

IndexTexts ==
    SeqsUpTo(IndexPieces, Cardinality(IndexPieces))
    \cup { << "a", SitemapMarker, "a", ".", "a" >>,
           << "a", ".", "a", "/", "a", ".", "a" >> }

IndexSitemaps == DocumentsOver(IndexTexts)

\* text.split(sep): the pieces of text between the occurrences of sep.
RECURSIVE Split(_, _, _, _)
Split(text, sep, k, parts) ==
    IF k > Len(text) THEN parts
    ELSE IF text[k] = sep
         THEN Split(text, sep, k + 1, Append(parts, <<>>))
         ELSE Split(text, sep, k + 1,
                    [parts EXCEPT ![Len(parts)] = Append(parts[Len(parts)], text[k])])

StrSplit(text, sep) == Split(text, sep, 1, << <<>> >>)

\* The list comprehension of lines 133-141.
RECURSIVE ParseLoop(_, _, _)
ParseLoop(entries, k, urls) ==
    IF k > Len(entries) THEN [raised |-> "", urls |-> urls]
    ELSE IF ~entries[k].has_text THEN [raised |-> "AttributeError", urls |-> urls]
    ELSE IF Len(StrSplit(entries[k].text, SitemapMarker)) < 2
    THEN [raised |-> "IndexError", urls |-> urls]
    ELSE ParseLoop(
             entries, k + 1,
             Append(urls,
                    [Category |-> StrSplit(StrSplit(entries[k].text, SitemapMarker)[2],
                                           ".")[1],
                     Link |-> entries[k].text]))

\* fetch_and_parse_categories_from_sitemap, line 163: the call returns a
\* list, or an exception leaves it (and ends main, line 516).
ParseSitemapIndex ==
    /\ mpc = "index"
    /\ LET loop == ParseLoop(xml_content.entries, 1, <<>>)
       IN  IF ~xml_content.well_formed
           THEN /\ error_log' = Append(error_log, << "index", 0 >>)
                /\ sitemap_urls' = <<>>
                /\ mpc' = "parsed"
           ELSE IF loop.raised # ""
           THEN /\ mpc' = "raised"
                /\ UNCHANGED << error_log, sitemap_urls >>
           ELSE /\ sitemap_urls' = loop.urls
                /\ mpc' = "parsed"
                /\ UNCHANGED error_log
    /\ UNCHANGED << product_ids, faults, product_queue, pq_unfinished, data_queue,
                    dq_unfinished, permits, wpc, witem, wbody, wres, seen_sellers,
                    wrpc, wrpayload, product_file, listing_file, seller_file,
                    next_id, progress >>
    /\ UNCHANGED << xml_content, hydra_vars >>

\* main, line 503: the sitemap index has been fetched.
InitIndex ==
    /\ xml_content \in IndexSitemaps
    /\ sitemap_urls = <<>>
    /\ PipelineAbsent
    /\ mpc = "index"
    /\ HydraIdle

NextIndex == ParseSitemapIndex

SpecIndex == InitIndex /\ [][NextIndex]_vars

(***************************************************************************)
(* C23.  parse_sitemap_index skips every <loc> entry whose text has not    *)
(* the shape "/sitemap/{category}.", without an error: the call returns,   *)
(* and what it returns for a well-formed document is the descriptor of     *)
(* every entry of that shape, in the order of the document.                *)
(***************************************************************************)
\* The places of a text where "/sitemap/" is followed, before any other
\* "/sitemap/", by a dot.
CategoryPlaces(text) ==
    { i \in 1..Len(text) :
        /\ text[i] = SitemapMarker
        /\ \E j \in (i + 1)..Len(text) :
              /\ text[j] = "."
              /\ \A m \in (i + 1)..(j - 1) : text[m] \notin {SitemapMarker, "."} }

HasCategoryShape(entry) == entry.has_text /\ CategoryPlaces(entry.text) # {}

CategoryIn(text) ==
    LET i == CHOOSE p \in CategoryPlaces(text) : \A q \in CategoryPlaces(text) : p <= q
        j == CHOOSE n \in (i + 1)..Len(text) :
                 text[n] = "." /\ \A m \in (i + 1)..(n - 1) : text[m] # "."
    IN  SubSeq(text, i + 1, j - 1)

DescriptorsOf(entries) ==
    LET shaped == SelectSeq(entries, HasCategoryShape)
    IN  [k \in 1..Len(shaped) |->
            [Category |-> CategoryIn(shaped[k].text), Link |-> shaped[k].text]]

C23_SkipsOtherEntries ==
    /\ mpc # "raised"
    /\ (mpc = "parsed" /\ xml_content.well_formed) =>
          /\ sitemap_urls = DescriptorsOf(xml_content.entries)
          /\ error_log = <<>>

(***************************************************************************)
(* The pub/sub batch worker, src/python/hydra/worker/worker.py, and the    *)
(* receiver, src/python/hydra/receiver/receiver.py.  worker_function       *)
(* handles one message of ids; `id_pool = batch` (line 30) gives a second  *)
(* name to the one list object the loop of line 32 iterates over.          *)
(***************************************************************************)
MaxBatch == 3

MaxProducts == 2

TcgIds == {"1", "2"}

Batches == SeqsUpTo(TcgIds, MaxBatch) \ { <<>> }

\* A JSON object is a function on its keys; dict.get(key, default).
DictGet(message, key, default) ==
    IF key \in DOMAIN message THEN message[key] ELSE default

\* list.remove(x): the list without its first x, or ValueError.
ListRemove(list, x) ==
    IF x \notin Range(list) THEN [raised |-> TRUE, list |-> list]
    ELSE LET first == CHOOSE k \in 1..Len(list) :
                          list[k] = x /\ \A n \in 1..(k - 1) : list[n] # x
         IN  [raised |-> FALSE,
              list |-> SubSeq(list, 1, first - 1) \o SubSeq(list, first + 1, Len(list))]

\* Lines 75-90: for each of the `products` products of the response, the
\* pricing record is appended, batch_size is decremented and the id is
\* removed from the list; a remove that raises ends the loop.
RECURSIVE ProductLoop(_, _, _, _, _, _)
ProductLoop(tcg_id, products, k, list, size, pricing) ==
    IF k > products
    THEN [raised |-> FALSE, list |-> list, size |-> size, pricing |-> pricing]
    ELSE LET removed == ListRemove(list, tcg_id)
             record  == [tcg_id |-> tcg_id, tcg_sku |-> k]
         IN  IF removed.raised
             THEN [raised |-> TRUE, list |-> list, size |-> size - 1,
                   pricing |-> Append(pricing, record)]
             ELSE ProductLoop(tcg_id, products, k + 1, removed.list, size - 1,
                              Append(pricing, record))

\* One turn of `for tcg_id in batch` (lines 32-94).  The list iterator hands
\* out batch[batch_iter] of the list as it is now, and ends the loop when
\* the index has reached the length the list has now.
WorkerIterate ==
    /\ hpc = "loop"
    /\ IF batch_iter >= Len(batch)
       THEN /\ hpc' = "after_loop"
            /\ UNCHANGED << batch, batch_size, pricing_data, batch_iter, responses,
                            failed_topic >>
       ELSE LET tcg_id == batch[batch_iter + 1]
            IN  /\ batch_iter' = batch_iter + 1
                /\ \/ \* a status that is not 200 (lines 56-71)
                      /\ responses' = Append(responses,
                                             [tcg_id |-> tcg_id, status_code |-> 500])
                      /\ failed_topic' =
                            Append(failed_topic,
                                   [status_code |-> 500,
                                    left_to_process |-> batch_size,
                                    remaining_ids |-> batch])
                      /\ hpc' = "after_loop"
                      /\ UNCHANGED << batch, batch_size, pricing_data >>
                   \/ \* requests.post or response.json() raises (lines 91-94)
                      /\ responses' = Append(responses,
                                             [tcg_id |-> tcg_id, status_code |-> 0])
                      /\ hpc' = "after_loop"
                      /\ UNCHANGED << batch, batch_size, pricing_data, failed_topic >>
                   \/ \* status 200 (lines 74-90)
                      \E products \in 0..MaxProducts :
                         LET loop == ProductLoop(tcg_id, products, 1, batch,
                                                 batch_size, pricing_data)
                         IN  /\ responses' =
                                   Append(responses,
                                          [tcg_id |-> tcg_id, status_code |-> 200])
                             /\ batch' = loop.list
                             /\ batch_size' = loop.size
                             /\ pricing_data' = loop.pricing
                             /\ hpc' = IF loop.raised THEN "after_loop" ELSE "loop"
                             /\ UNCHANGED failed_topic
    /\ UNCHANGED << event, success_topic, dispatcher_topic, table_rows >>
    /\ UNCHANGED << pipeline_vars, sitemap_vars >>

\* Lines 97-101.
WorkerPublish ==
    /\ hpc = "after_loop"
    /\ success_topic' = IF pricing_data # <<>>
                        THEN Append(success_topic, [data |-> pricing_data])
                        ELSE success_topic
    /\ hpc' = "done"
    /\ UNCHANGED << event, batch, batch_size, pricing_data, batch_iter, responses,
                    failed_topic, dispatcher_topic, table_rows >>
    /\ UNCHANGED << pipeline_vars, sitemap_vars >>

\* receiver_function (receiver.py, lines 17-36) on one message.
ReceiverFunction(message) ==
    LET success_data == DictGet(message, "data", <<>>)
        failed_ids   == DictGet(message, "failed_ids", <<>>)
    IN  /\ table_rows' = IF success_data # <<>>
                         THEN table_rows \o success_data ELSE table_rows
        /\ dispatcher_topic' = IF failed_ids # <<>>
                               THEN Append(dispatcher_topic, [tcg_ids |-> failed_ids])
                               ELSE dispatcher_topic

ReceiveFailed ==
    /\ failed_topic # <<>>
    /\ ReceiverFunction(Head(failed_topic))
    /\ failed_topic' = Tail(failed_topic)
    /\ UNCHANGED << event, batch, batch_size, pricing_data, batch_iter, hpc,
                    responses, success_topic >>
    /\ UNCHANGED << pipeline_vars, sitemap_vars >>

ReceiveSuccess ==
    /\ success_topic # <<>>
    /\ ReceiverFunction(Head(success_topic))
    /\ success_topic' = Tail(success_topic)
    /\ UNCHANGED << event, batch, batch_size, pricing_data, batch_iter, hpc,
                    responses, failed_topic >>
    /\ UNCHANGED << pipeline_vars, sitemap_vars >>

\* worker_function has read the batch of its message (lines 27-30).
InitHydra ==
    /\ event \in Batches
    /\ batch = event
    /\ batch_size = Len(event)
    /\ pricing_data = <<>>
    /\ batch_iter = 0
    /\ hpc = "loop"
    /\ responses = <<>>
    /\ failed_topic = <<>>
    /\ success_topic = <<>>
    /\ dispatcher_topic = <<>>
    /\ table_rows = <<>>
    /\ PipelineAbsent
    /\ mpc = "absent"
    /\ SitemapIdle

NextHydra ==
    \/ WorkerIterate
    \/ WorkerPublish
    \/ ReceiveFailed
    \/ ReceiveSuccess

SpecHydra == InitHydra /\ [][NextHydra]_vars

(***************************************************************************)
(* C25.  When the receiver handles the failure message of a batch that the *)
(* worker stopped on a status that is not 200, it publishes the ids the    *)
(* message names as not processed on the dispatcher topic, for a retry.    *)
(***************************************************************************)
C25_FailureIsRedispatched ==
    [][ ( /\ failed_topic # <<>>
          /\ failed_topic' = Tail(failed_topic)
          /\ Head(failed_topic).remaining_ids # <<>> )
        => dispatcher_topic' =
              Append(dispatcher_topic,
                     [tcg_ids |-> Head(failed_topic).remaining_ids]) ]_vars

(***************************************************************************)
(* C26.  When the worker has published a failure message, the ids of the   *)
(* batch were visited in order up to the failing one, remaining_ids is the *)
(* list of the ids of the batch that have had no response of status 200    *)
(* (the failing one and those after it), and left_to_process is the length *)
(* of remaining_ids.                                                       *)
(***************************************************************************)
C26_RemainingIdsAreTheUnprocessed ==
    \A n \in 1..Len(failed_topic) :
        LET message == failed_topic[n]
            visited == Len(responses)
        IN  /\ visited <= Len(event)
            /\ \A k \in 1..visited : responses[k].tcg_id = event[k]
            /\ \A k \in 1..(visited - 1) : responses[k].status_code = 200
            /\ message.remaining_ids = SubSeq(event, visited, Len(event))
            /\ message.left_to_process = Len(message.remaining_ids)

(***************************************************************************)
(* The pipeline with a fetch that can raise.  fetch_product_data turns     *)
(* every answer of the endpoint into a return value, so the except clause  *)
(* of worker (lines 352-357) runs only for an exception that escapes the   *)
(* call all the same, such as one raised inside its own except clauses.    *)
(* The worker then logs the error and awaits product_queue.put(product_id) *)
(* (which suspends it only while the queue is full), awaits sleep(10), and *)
(* its finally clause acknowledges the id it took.                         *)
(***************************************************************************)
\* The exceptions that have escaped a fetch call so far.
RaisedSoFar == Len(SelectSeq(error_log, LAMBDA r : r[1] = "worker"))

FetchRaises(w) ==
    /\ wpc[w] = "post"
    /\ RaisedSoFar < NumWorkers
    /\ permits' = permits + 1
    /\ error_log' = Append(error_log, << "worker", witem[w] >>)
    /\ IF QueueFull(product_queue)
       THEN /\ wpc' = [wpc EXCEPT ![w] = "put"]
            /\ UNCHANGED << product_queue, pq_unfinished >>
       ELSE /\ product_queue' = Append(product_queue, witem[w])
            /\ pq_unfinished' = pq_unfinished + 1
            /\ wpc' = [wpc EXCEPT ![w] = "sleep"]
    /\ UNCHANGED << product_ids, faults, data_queue, dq_unfinished, witem, wbody,
                    wres, seen_sellers, wrpc, wrpayload, product_file,
                    listing_file, seller_file, mpc, next_id, progress >>
    /\ UNCHANGED << sitemap_vars, hydra_vars >>

\* Line 356, for a worker that found the queue full: the put goes through
\* once the queue has room.
WorkerPut(w) ==
    /\ wpc[w] = "put"
    /\ ~QueueFull(product_queue)
    /\ product_queue' = Append(product_queue, witem[w])
    /\ pq_unfinished' = pq_unfinished + 1
    /\ wpc' = [wpc EXCEPT ![w] = "sleep"]
    /\ UNCHANGED << product_ids, faults, error_log, data_queue, dq_unfinished,
                    permits, witem, wbody, wres, seen_sellers, wrpc, wrpayload,
                    product_file, listing_file, seller_file, mpc, next_id,
                    progress >>
    /\ UNCHANGED << sitemap_vars, hydra_vars >>

\* A finally clause that acknowledges the id it took and the id it put back.
WorkerWakeAcksBoth(w) ==
    /\ wpc[w] = "sleep"
    /\ pq_unfinished' = pq_unfinished - 2
    /\ progress' = progress + 1
    /\ wpc' = [wpc EXCEPT ![w] = "get"]
    /\ witem' = [witem EXCEPT ![w] = 0]
    /\ UNCHANGED << product_ids, faults, error_log, product_queue, data_queue,
                    dq_unfinished, permits, wbody, wres, seen_sellers, wrpc,
                    wrpayload, product_file, listing_file, seller_file, mpc,
                    next_id >>
    /\ UNCHANGED << sitemap_vars, hydra_vars >>

\* Lines 357-360: the sleep ends and the finally clause runs.
WorkerWake(w) ==
    /\ wpc[w] = "sleep"
    /\ pq_unfinished' = pq_unfinished - 1
    /\ progress' = progress + 1
    /\ wpc' = [wpc EXCEPT ![w] = "get"]
    /\ witem' = [witem EXCEPT ![w] = 0]
    /\ UNCHANGED << product_ids, faults, error_log, product_queue, data_queue,
                    dq_unfinished, permits, wbody, wres, seen_sellers, wrpc,
                    wrpayload, product_file, listing_file, seller_file, mpc,
                    next_id >>
    /\ UNCHANGED << sitemap_vars, hydra_vars >>

\* The lists 102, 103, 102, ... up to the length that fills the queue, gives
\* every worker an id and leaves the producer with one more id to put.  The
\* endpoint answers every request well; the failures are the exceptions
\* that escape the fetch call, one per worker at most.
RaiseIdLists ==
    { [k \in 1..n |-> IF k % 2 = 1 THEN 102 ELSE 103] :
        n \in 1..(NumWorkers + QueueMaxsize + 1) }

\* A shorter run: lists that fill the queue and give two workers an id.
RequeueIdLists ==
    { [k \in 1..n |-> IF k % 2 = 1 THEN 102 ELSE 103] : n \in 1..(QueueMaxsize + 2) }

InitFetchRaises ==
    /\ product_ids \in RaiseIdLists
    /\ faults = 0
    /\ TasksAtFirstAwait

InitRequeue ==
    /\ product_ids \in RequeueIdLists
    /\ faults = 0
    /\ TasksAtFirstAwait

NextFetchRaises ==
    \/ Next
    \/ \E w \in Workers : FetchRaises(w)
    \/ \E w \in Workers : WorkerPut(w)
    \/ \E w \in Workers : WorkerWake(w)

SpecFetchRaises == InitFetchRaises /\ [][NextFetchRaises]_vars

SpecRequeue == InitRequeue /\ [][NextFetchRaises]_vars

C30_PutBackIsCounted ==
    /\ pq_unfinished >= 0
    /\ pq_unfinished = Len(product_queue) + Cardinality(Holding)
    /\ mpc \in {"join_data", "returned"} =>
          /\ product_queue = <<>>
          /\ Holding = {}
          /\ progress = Len(product_ids) + RaisedSoFar

\* The orchestrator waits in the join of product_queue while a worker
\* sleeps after it has put its id back, and another worker is fetching
\* that id again.
C30_Witness ==
    /\ mpc = "join_product"
    /\ \E w, v \in Workers :
          /\ wpc[w] = "sleep"
          /\ wpc[v] = "post"
          /\ witem[v] = witem[w]
          /\ Occurrences(witem[w]) = 1
          /\ product_queue = <<>>
          /\ pq_unfinished = 2

=============================================================================
